---- MODULE Spec2Model ----
(***************************************************************************)
(* Ledger engine of the blockchain simulator (src/src/wallet.js, classes   *)
(* Transaction, Block, Blockchain).                                        *)
(*                                                                         *)
(* Conventions.                                                            *)
(*  - Amounts are integers counted in units of 0.0001 coin (Coin units     *)
(*    make one coin), so that the fee rate 0.0001 and the base fee 0.001   *)
(*    are exact on whole-coin amounts.  Floating-point rounding is not     *)
(*    modelled.                                                            *)
(*  - JavaScript arrays are objects: `arrays` is the heap of transaction   *)
(*    arrays, and a block's `transactions` field and the ledger's          *)
(*    `pendingTransactions` field hold references into it.                 *)
(*  - JavaScript index k of `chain` is index k + 1 here.                   *)
(*  - SHA-256 is modelled as a collision-free digest: a digest carries its *)
(*    hexadecimal digits (`hex`, a deterministic function of the hashed    *)
(*    content) and the content itself (`pre`).                             *)
(*  - Date.now() is read at the start of a call (`now`); the clock         *)
(*    advances while a block is mined.                                     *)
(*  - Transaction ids (crypto.randomUUID()) are drawn from a counter, so   *)
(*    that the transactions the ledger keeps have pairwise different ids.  *)
(***************************************************************************)
EXTENDS Integers, Sequences, FiniteSets, TLC

VARIABLES chain, arrays, pendingTransactions, difficulty, balances, tokens,
          tokenInfo, now, nextId, ret, miner, miningPool, call,
          wallets, files, keyPairs, walletCall

vars == <<chain, arrays, pendingTransactions, difficulty, balances, tokens,
          tokenInfo, now, nextId, ret, miner, miningPool, call,
          wallets, files, keyPairs, walletCall>>

(* the ledger's part of the state, and the orchestrator's (a Miner that is *)
(* a member of a MiningPool, src/miner.js)                                 *)
ledgerVars == <<chain, arrays, pendingTransactions, difficulty, balances,
                tokens, tokenInfo, now, nextId, ret>>

minerVars == <<miner, miningPool, call>>

(* the Wallet objects made so far, the wallet directory, the number of key *)
(* pairs generated so far and the last call of a Wallet operation          *)
walletVars == <<wallets, files, keyPairs, walletCall>>

----------------------------------------------------------------------------
(* Bounds of the model *)

MaxChain == 3
MaxPending == 2
MaxDifficulty == 1
HashLen == 5

(* Input domains *)

Null == "null"
NullFee == -1
Addresses == {"A", "B"}
Tokens == {"T"}
Coin == 10000
Amounts == {6 * Coin}
LargeAmount == 12 * Coin
Signatures == {Null, "", "sig"}
CustomFees == {NullFee, 0}
EmptyData == [tokenName |-> Null]
TokenData == {[tokenName |-> t] : t \in Tokens}

(* The transactions callers submit.  User kinds come signed, unsigned or   *)
(* with an empty signature, with either party possibly absent; a fee       *)
(* override is tried on transfers.  System kinds are submitted unsigned.   *)
Senders == {"A", Null}
Receivers == {"A", "B", Null}
Requests ==
    [from : Senders, to : Receivers, amount : Amounts \cup {LargeAmount},
     type : {"transfer"}, data : {EmptyData}, customFee : CustomFees,
     signature : Signatures]
    \cup
    [from : Senders, to : Receivers, amount : Amounts,
     type : {"transfer_token"}, data : TokenData, customFee : {NullFee},
     signature : Signatures]
    \cup
    [from : Senders, to : {"B"}, amount : Amounts, type : {"mint_token"},
     data : TokenData, customFee : {NullFee}, signature : {Null}]
    \cup
    [from : Senders, to : {"B"}, amount : Amounts, type : {"mining_reward"},
     data : {EmptyData}, customFee : {NullFee}, signature : {Null}]

(* the submissions made while the difficulty is being changed *)
PowRequests ==
    [from : {"A"}, to : {"B"}, amount : Amounts, type : {"transfer"},
     data : {EmptyData}, customFee : {NullFee}, signature : {"sig"}]
    \cup
    [from : {"A"}, to : {"B"}, amount : Amounts, type : {"transfer_token"},
     data : TokenData, customFee : {NullFee}, signature : {"sig"}]

(* the submissions made while a Miner runs: a mint_token with a sender    *)
(* (accepted), coin and token transfers                                   *)
MinerRequests ==
    PowRequests
    \cup
    [from : {"A"}, to : {"A"}, amount : Amounts, type : {"mint_token"},
     data : TokenData, customFee : {NullFee}, signature : {Null}]

(* Wallet keys: the private key of the wallet at an address, and the hex   *)
(* signature that Transaction.sign(privateKey) stores                      *)
PrivateKey(address) == CASE address = "A" -> "keyA" [] OTHER -> "keyB"

sign(privateKey) == CASE privateKey = "keyA" -> "sigA" [] OTHER -> "sigB"

(* The transactions a program built on the ledger can submit: the amount   *)
(* is whatever number the caller read (parseFloat of the input), a token   *)
(* transfer may name its sender as recipient, a mint_token may carry a     *)
(* sender, and a transfer is signed with whichever private key the caller  *)
(* holds.                                                                  *)
ApiAmounts == {0 - Coin, 0, 2 * Coin}
ApiRequests ==
    [from : {"A"}, to : Addresses, amount : ApiAmounts,
     type : {"transfer_token"}, data : TokenData, customFee : {NullFee},
     signature : {sign(PrivateKey("A"))}]
    \cup
    [from : {"A"}, to : {"A"}, amount : {2 * Coin}, type : {"mint_token"},
     data : TokenData, customFee : {NullFee}, signature : {Null}]
    \cup
    [from : {"A"}, to : {"B"}, amount : {2 * Coin}, type : {"transfer"},
     data : {EmptyData}, customFee : {NullFee},
     signature : {sign(PrivateKey(a)) : a \in Addresses}]

(* The transactions isValid() is asked about: every kind, with a sender    *)
(* that is an address, the empty string or null, and a signature that is   *)
(* null, empty or a hex string.                                            *)
TransactionTypes == {"transfer", "mining_reward", "mint_token",
                     "transfer_token"}
ValidityInputs ==
    [from : {"A", "", Null}, to : {"B", Null}, amount : {0, 6 * Coin},
     type : TransactionTypes, data : TokenData, customFee : {NullFee},
     signature : {Null, "", sign(PrivateKey("B"))}]

(* createToken arguments *)
Supplies == {6 * Coin}
Creators == {"A"}

----------------------------------------------------------------------------
(* Map helpers: a JavaScript Map is a function whose DOMAIN is its key set *)

EmptyMap == [k \in {} |-> 0]

MapGetOr(m, k, dflt) == IF k \in DOMAIN m THEN m[k] ELSE dflt

MapSet(m, k, v) == [x \in (DOMAIN m) \cup {k} |-> IF x = k THEN v ELSE m[x]]

Max(a, b) == IF a >= b THEN a ELSE b

RECURSIVE SumSeq(_)
SumSeq(s) == IF s = <<>> THEN 0 ELSE Head(s) + SumSeq(Tail(s))

MapSum(m) ==
    LET RECURSIVE Sum(_)
        Sum(S) == IF S = {} THEN 0
                  ELSE LET k == CHOOSE x \in S : TRUE
                       IN  m[k] + Sum(S \ {k})
    IN  Sum(DOMAIN m)

----------------------------------------------------------------------------
(* Transaction *)

baseFee == 10

(* Math.max(baseFee, amount * 0.0001) *)
calculateFee(amount) == Max(baseFee, amount \div Coin)

(* mutant: the fee override is ignored *)
TransactionNoOverride(id, from, to, amount, type, data, customFee, t) ==
    [id |-> id, from |-> from, to |-> to, amount |-> amount, type |-> type,
     data |-> data, timestamp |-> t, fee |-> calculateFee(amount),
     signature |-> Null]

Transaction(id, from, to, amount, type, data, customFee, t) ==
    [id |-> id, from |-> from, to |-> to, amount |-> amount, type |-> type,
     data |-> data, timestamp |-> t,
     fee |-> IF customFee # NullFee THEN customFee ELSE calculateFee(amount),
     signature |-> Null]

(* mutant: the sender is not looked at *)
isValidSignatureOnly(tx) ==
    IF tx.type = "mining_reward" \/ tx.type = "mint_token" THEN TRUE
    ELSE IF tx.signature = Null \/ tx.signature = "" THEN FALSE
    ELSE Len(tx.signature) > 0

isValid(tx) ==
    IF tx.type = "mining_reward" \/ tx.type = "mint_token" THEN TRUE
    ELSE IF tx.signature = Null \/ tx.signature = "" THEN FALSE
    ELSE IF tx.from = Null \/ tx.from = "" THEN FALSE
    ELSE Len(tx.signature) > 0

----------------------------------------------------------------------------
(* Digest *)

AddrCode(a) == CASE a = "A" -> 1 [] a = "B" -> 2 [] OTHER -> 0

TypeCode(ty) == CASE ty = "transfer" -> 1 [] ty = "mining_reward" -> 2
                  [] ty = "mint_token" -> 3 [] OTHER -> 4

SigCode(s) == CASE s = Null -> 0 [] s = "" -> 1 [] OTHER -> 2

(* mutant: only the fields Transaction.calculateHash covers *)
StringifyTxSigned(tx) ==
    <<0, tx.from, tx.to, tx.amount, "", tx.data, tx.timestamp, 0, "">>

(* JSON.stringify of one transaction: every own field, in declaration order *)
StringifyTx(tx) ==
    <<tx.id, tx.from, tx.to, tx.amount, tx.type, tx.data, tx.timestamp,
      tx.fee, tx.signature>>

Stringify(txs) == [i \in 1..Len(txs) |-> StringifyTx(txs[i])]

TxWeight(j) ==
    j[1] + 3 * AddrCode(j[2]) + 5 * AddrCode(j[3]) + (j[4] \div Coin)
    + 7 * TypeCode(j[5]) + 11 * j[7] + j[8] + 13 * SigCode(j[9])

(* the hexadecimal digits of the digest of a message: position k holds    *)
(* bit k - 1 of the weight of the message                                  *)
HexDigits(w) == [k \in 1..HashLen |-> (w \div (2 ^ (k - 1))) % 2]

Sha256(msg, w) == [hex |-> HexDigits(w), pre |-> msg]

(* the one-character string "0" used as the genesis block's previousHash *)
ZeroHash == [hex |-> <<0>>, pre |-> <<>>]

----------------------------------------------------------------------------
(* Block *)

DefaultDifficulty == 4

(* the difficulty field a Block is constructed with *)
BlockDifficulty == 4

baseReward == 10 * Coin

HashWeight(h) == SumSeq(h.hex)

(* Block.calculateHash; txs is the content of the block's transactions     *)
(* array.  b and json are the values of the block and of                   *)
(* JSON.stringify(this.transactions), each evaluated once.                 *)
calculateHash(block, txs) ==
    CHOOSE h \in
        {Sha256(<<b.previousHash, b.timestamp, json, b.nonce>>,
                HashWeight(b.previousHash) + b.timestamp
                + SumSeq([i \in 1..Len(json) |-> TxWeight(json[i])])
                + b.nonce) : b \in {block}, json \in {Stringify(txs)}} : TRUE

(* new Block(timestamp, transactions, previousHash); ref is the array held *)
Block(t, ref, txs, previousHash) ==
    LET b == [timestamp |-> t, transactions |-> ref,
              previousHash |-> previousHash, nonce |-> 0, hash |-> ZeroHash,
              miner |-> Null, reward |-> 0, difficulty |-> BlockDifficulty]
    IN  [b EXCEPT !.hash = calculateHash(b, txs)]

Target(d) == [i \in 1..d |-> 0]

(* mutant: one digit fewer is compared *)
HashMeetsTargetShort(hash, d) == SubSeq(hash.hex, 1, d - 1) = Target(d - 1)

(* hash.substring(0, difficulty) === target *)
HashMeetsTarget(hash, d) == SubSeq(hash.hex, 1, d) = Target(d)

(* mutant: the fee of a mining_reward transaction is not counted *)
calculateRewardUserFees(txs) ==
    baseReward + SumSeq([i \in 1..Len(txs) |->
                           IF txs[i].type = "mining_reward" THEN 0
                           ELSE txs[i].fee])

calculateReward(txs) == baseReward + SumSeq([i \in 1..Len(txs) |-> txs[i].fee])

RECURSIVE mineLoop(_, _, _)
mineLoop(block, txs, d) ==
    CHOOSE r \in
        {IF HashMeetsTarget(b.hash, d) THEN b
         ELSE LET b1 == [b EXCEPT !.nonce = @ + 1]
              IN  mineLoop([b1 EXCEPT !.hash = calculateHash(b1, t)], t, d)
            : b \in {block}, t \in {txs}} : TRUE

mineBlock(block, txs, d, minerAddress) ==
    [mineLoop(block, txs, d) EXCEPT !.miner = minerAddress,
                                    !.reward = calculateReward(txs)]

hasValidTransactions(txs) == \A i \in 1..Len(txs) : isValid(txs[i])

----------------------------------------------------------------------------
(* Blockchain *)

miningReward == 10 * Coin

createGenesisBlock(t, ref) == Block(t, ref, <<>>, ZeroHash)

(* mutant: the first block instead of the last *)
getFirstBlock(c) == c[1]

getLatestBlock(c) == c[Len(c)]

getBalance(bal, address) == MapGetOr(bal, address, 0)

getTokenBalance(tok, address, tokenName) ==
    MapGetOr(MapGetOr(tok, address, EmptyMap), tokenName, 0)

(* mutant: the balance is compared with the fee alone *)
addTransactionErrorFeeOnly(tx, bal) ==
    IF tx.from = Null \/ tx.from = "" \/ tx.to = Null \/ tx.to = ""
    THEN "MissingParties"
    ELSE IF ~isValid(tx) THEN "InvalidSignature"
    ELSE IF tx.type = "transfer" /\ getBalance(bal, tx.from) < tx.fee
    THEN "InsufficientFunds"
    ELSE "none"

(* mutant: the balance check also counts the sender's pending transfers *)
addTransactionErrorPending(tx, bal) ==
    LET pool == arrays[pendingTransactions]
        held == SumSeq([j \in 1..Len(pool) |->
                          IF pool[j].type = "transfer" /\ pool[j].from = tx.from
                          THEN pool[j].amount + pool[j].fee ELSE 0])
    IN  IF tx.from = Null \/ tx.from = "" \/ tx.to = Null \/ tx.to = ""
        THEN "MissingParties"
        ELSE IF ~isValid(tx) THEN "InvalidSignature"
        ELSE IF tx.type = "transfer"
                /\ getBalance(bal, tx.from) - held < tx.amount + tx.fee
        THEN "InsufficientFunds"
        ELSE "none"

(* mutant: the isValid check is left out *)
addTransactionErrorUnsigned(tx, bal) ==
    IF tx.from = Null \/ tx.from = "" \/ tx.to = Null \/ tx.to = ""
    THEN "MissingParties"
    ELSE IF tx.type = "transfer"
            /\ getBalance(bal, tx.from) < tx.amount + tx.fee
    THEN "InsufficientFunds"
    ELSE "none"

(* the error addTransaction throws for tx, or "none" *)
addTransactionError(tx, bal) ==
    IF tx.from = Null \/ tx.from = "" \/ tx.to = Null \/ tx.to = ""
    THEN "MissingParties"
    ELSE IF ~isValid(tx) THEN "InvalidSignature"
    ELSE IF tx.type = "transfer"
            /\ getBalance(bal, tx.from) < tx.amount + tx.fee
    THEN "InsufficientFunds"
    ELSE "none"

(* the sum of one token's balances over all addresses *)
TokenSum(tok, tokenName) ==
    MapSum([a \in DOMAIN tok |-> MapGetOr(tok[a], tokenName, 0)])

(* mutant: a mint that would exceed the registered totalSupply is dropped *)
mintTokenCapped(tok, tokenName, to, amount) ==
    LET userTokens == MapGetOr(tok, to, EmptyMap)
        currentAmount == MapGetOr(userTokens, tokenName, 0)
    IN  IF /\ tokenName \in DOMAIN tokenInfo
           /\ TokenSum(tok, tokenName) + amount
                  > tokenInfo[tokenName].totalSupply
        THEN tok
        ELSE MapSet(tok, to,
                    MapSet(userTokens, tokenName, currentAmount + amount))

mintToken(tok, tokenName, to, amount) ==
    LET userTokens == MapGetOr(tok, to, EmptyMap)
        currentAmount == MapGetOr(userTokens, tokenName, 0)
    IN  MapSet(tok, to, MapSet(userTokens, tokenName, currentAmount + amount))

(* Blockchain.transferToken without its balance check.  When from = to     *)
(* and the address already has a token map, fromTokens and toTokens are    *)
(* the same Map object; otherwise they are two objects and the second      *)
(* tokens.set wins.                                                        *)
transferToken(tok, tokenName, from, to, amount) ==
    LET fromTokens == MapGetOr(tok, from, EmptyMap)
        toTokens == MapGetOr(tok, to, EmptyMap)
        fromAmount == MapGetOr(fromTokens, tokenName, 0)
        fromTokens1 == MapSet(fromTokens, tokenName, fromAmount - amount)
        toBase == IF from = to /\ from \in DOMAIN tok THEN fromTokens1
                  ELSE toTokens
        toTokens1 == MapSet(toBase, tokenName,
                            MapGetOr(toBase, tokenName, 0) + amount)
    IN  MapSet(MapSet(tok, from, fromTokens1), to, toTokens1)

transferTokenThrows(tok, tokenName, from, amount) ==
    getTokenBalance(tok, from, tokenName) < amount

(* mutant: a mining_reward credits nobody *)
applyTransactionNoReward(st, tx) ==
    CASE tx.type = "transfer" ->
           LET fromBalance == MapGetOr(st.bal, tx.from, 0)
               toBalance == MapGetOr(st.bal, tx.to, 0)
           IN  [st EXCEPT !.bal =
                   MapSet(MapSet(st.bal, tx.from,
                                 fromBalance - tx.amount - tx.fee),
                          tx.to, toBalance + tx.amount)]
      [] tx.type = "mint_token" ->
           [st EXCEPT !.tok =
               mintToken(st.tok, tx.data.tokenName, tx.to, tx.amount)]
      [] tx.type = "transfer_token" ->
           IF transferTokenThrows(st.tok, tx.data.tokenName, tx.from,
                                  tx.amount)
           THEN [st EXCEPT !.err = "InsufficientTokenBalance"]
           ELSE [st EXCEPT !.tok =
                    transferToken(st.tok, tx.data.tokenName, tx.from, tx.to,
                                  tx.amount)]
      [] OTHER -> st

(* mutant: a token transaction's fee is deducted from its sender *)
applyTransactionTokenFee(st, tx) ==
    LET debited == MapSet(st.bal, tx.from,
                          MapGetOr(st.bal, tx.from, 0) - tx.fee)
    IN
    CASE tx.type = "transfer" ->
           LET fromBalance == MapGetOr(st.bal, tx.from, 0)
               toBalance == MapGetOr(st.bal, tx.to, 0)
           IN  [st EXCEPT !.bal =
                   MapSet(MapSet(st.bal, tx.from,
                                 fromBalance - tx.amount - tx.fee),
                          tx.to, toBalance + tx.amount)]
      [] tx.type = "mining_reward" ->
           [st EXCEPT !.bal =
               MapSet(st.bal, tx.to, MapGetOr(st.bal, tx.to, 0) + tx.amount)]
      [] tx.type = "mint_token" ->
           [st EXCEPT !.bal = debited,
                      !.tok = mintToken(st.tok, tx.data.tokenName, tx.to,
                                        tx.amount)]
      [] tx.type = "transfer_token" ->
           IF transferTokenThrows(st.tok, tx.data.tokenName, tx.from,
                                  tx.amount)
           THEN [st EXCEPT !.err = "InsufficientTokenBalance"]
           ELSE [st EXCEPT !.bal = debited,
                           !.tok = transferToken(st.tok, tx.data.tokenName,
                                                 tx.from, tx.to, tx.amount)]
      [] OTHER -> st

(* one iteration of the forEach of updateBalances on st = [bal, tok, err] *)
applyTransaction(st, tx) ==
    CASE tx.type = "transfer" ->
           LET fromBalance == MapGetOr(st.bal, tx.from, 0)
               toBalance == MapGetOr(st.bal, tx.to, 0)
           IN  [st EXCEPT !.bal =
                   MapSet(MapSet(st.bal, tx.from,
                                 fromBalance - tx.amount - tx.fee),
                          tx.to, toBalance + tx.amount)]
      [] tx.type = "mining_reward" ->
           [st EXCEPT !.bal =
               MapSet(st.bal, tx.to, MapGetOr(st.bal, tx.to, 0) + tx.amount)]
      [] tx.type = "mint_token" ->
           [st EXCEPT !.tok =
               mintToken(st.tok, tx.data.tokenName, tx.to, tx.amount)]
      [] tx.type = "transfer_token" ->
           IF transferTokenThrows(st.tok, tx.data.tokenName, tx.from,
                                  tx.amount)
           THEN [st EXCEPT !.err = "InsufficientTokenBalance"]
           ELSE [st EXCEPT !.tok =
                    transferToken(st.tok, tx.data.tokenName, tx.from, tx.to,
                                  tx.amount)]
      [] OTHER -> st

(* updateBalances: the transactions in block order, stopping at a throw *)
RECURSIVE updateBalances(_, _)
updateBalances(st, txs) ==
    IF txs = <<>> \/ st.err # "none" THEN st
    ELSE updateBalances(applyTransaction(st, Head(txs)), Tail(txs))

(* mutant: the previousHash test is left out *)
isChainValidNoLink(c, heap) ==
    \A i \in 2..Len(c) :
        /\ hasValidTransactions(heap[c[i].transactions])
        /\ c[i].hash = calculateHash(c[i], heap[c[i].transactions])

isChainValid(c, heap) ==
    \A i \in 2..Len(c) :
        /\ hasValidTransactions(heap[c[i].transactions])
        /\ c[i].hash = calculateHash(c[i], heap[c[i].transactions])
        /\ c[i].previousHash = c[i - 1].hash

(* getStats *)
getStats(c, heap, bal, info, d, pool) ==
    [totalBlocks |-> Len(c),
     totalTransactions |->
         SumSeq([i \in 1..Len(c) |-> Len(heap[c[i].transactions])]),
     totalAddresses |-> Cardinality(DOMAIN bal),
     totalTokens |-> Cardinality(DOMAIN info),
     difficulty |-> d,
     pendingTransactions |-> Len(pool)]

(* searchTransaction: the first block, in chain order, holding the id *)
searchTransaction(c, heap, txId) ==
    LET holds(i) == \E j \in 1..Len(heap[c[i].transactions]) :
                        heap[c[i].transactions][j].id = txId
        found == {i \in 1..Len(c) : holds(i)}
    IN  IF found = {} THEN Null
        ELSE LET i == CHOOSE x \in found : \A y \in found : x <= y
             IN  [transaction |-> txId,
                  block |-> [hash |-> c[i].hash, timestamp |-> c[i].timestamp,
                             height |-> i - 1]]

(* searchBlock with a number: the block at that height, or null *)
searchBlock(c, height) ==
    IF height + 1 \in 1..Len(c) THEN c[height + 1] ELSE Null

(* searchBlock with a hash: the first block with that hash, or null *)
searchBlockByHash(c, hash) ==
    LET found == {i \in 1..Len(c) : c[i].hash = hash}
    IN  IF found = {} THEN Null
        ELSE c[CHOOSE x \in found : \A y \in found : x <= y]

(* {...tx, blockHeight, blockHash, blockTimestamp} *)
Annotated(tx, blockIndex, block) ==
    [id |-> tx.id, from |-> tx.from, to |-> tx.to, amount |-> tx.amount,
     type |-> tx.type, data |-> tx.data, timestamp |-> tx.timestamp,
     fee |-> tx.fee, signature |-> tx.signature,
     blockHeight |-> blockIndex, blockHash |-> block.hash,
     blockTimestamp |-> block.timestamp]

(* the matching transactions of one block, in block order *)
RECURSIVE MatchingOf(_, _, _, _)
MatchingOf(txs, blockIndex, block, address) ==
    IF txs = <<>> THEN <<>>
    ELSE (IF Head(txs).from = address \/ Head(txs).to = address
          THEN <<Annotated(Head(txs), blockIndex, block)>> ELSE <<>>)
         \o MatchingOf(Tail(txs), blockIndex, block, address)

(* the pushes of the two nested forEach loops, from block i on *)
RECURSIVE Collected(_, _, _, _)
Collected(c, heap, address, i) ==
    IF i > Len(c) THEN <<>>
    ELSE MatchingOf(heap[c[i].transactions], i - 1, c[i], address)
         \o Collected(c, heap, address, i + 1)

(* Array.prototype.sort with (a, b) => b.timestamp - a.timestamp is        *)
(* stable: x goes after every element that is not older than it            *)
InsertNewestFirst(sorted, x) ==
    LET before == {k \in 1..Len(sorted) : sorted[k].timestamp >= x.timestamp}
        n == Cardinality(before)
    IN  SubSeq(sorted, 1, n) \o <<x>> \o SubSeq(sorted, n + 1, Len(sorted))

RECURSIVE SortByTimestamp(_, _)
SortByTimestamp(sorted, rest) ==
    IF rest = <<>> THEN sorted
    ELSE SortByTimestamp(InsertNewestFirst(sorted, Head(rest)), Tail(rest))

getAddressTransactions(c, heap, address) ==
    SortByTimestamp(<<>>, Collected(c, heap, address, 1))

----------------------------------------------------------------------------
(* State *)

(* ret is the outcome of the last call: the operation, the error thrown   *)
(* ("none" when it returned), the notifications emitted in order, and for *)
(* minePendingTransactions the returned block.  Objects are named by      *)
(* reference: a block by its index in chain, a transaction by its id.     *)
(* new Miner(...): isRunning = false, no miningLoop activation yet; new   *)
(* MiningPool(...): isRunning = false                                     *)
NewMiner == [isRunning |-> FALSE, loops |-> 0]

NewPool == [isRunning |-> FALSE]

(* Wallet (src/wallet.js).  A PEM text is modelled by its kind and the     *)
(* number of the key pair it belongs to; the k-th call of                  *)
(* crypto.generateKeyPairSync yields the k-th key pair.                    *)
WalletNames == {"alice", "bob"}

Passwords == {"", "secret", "other"}

MaxWallets == 3

generateKeyPairSync(k) ==
    [privateKey |-> [pem |-> "PRIVATE KEY", key |-> k],
     publicKey |-> [pem |-> "PUBLIC KEY", key |-> k]]

(* the first 40 hex digits of the SHA-256 digest of the public key PEM *)
generateAddress(publicKey) == [sha256 |-> publicKey, digits |-> 40]

(* new Wallet(name) at time t, when k - 1 key pairs were generated before *)
Wallet(name, k, t) ==
    LET pair == generateKeyPairSync(k)
    IN  [name |-> IF name = Null \/ name = ""
                  THEN "wallet_" \o ToString(t) ELSE name,
         privateKey |-> pair.privateKey,
         publicKey |-> pair.publicKey,
         address |-> generateAddress(pair.publicKey),
         transactions |-> <<>>]

(* crypto.createCipher('aes192', password): update and final of a text *)
createCipher(password, text) == [aes192 |-> password, plain |-> text]

(* crypto.createDecipher('aes192', password): update and final; final     *)
(* throws on the padding of a text enciphered under another password      *)
createDecipher(password, data) ==
    IF data.aes192 = password
    THEN [err |-> "none", value |-> data.plain]
    ELSE [err |-> "bad decrypt"]

HexEncode(bytes) == [hex |-> bytes]

HexDecode(text) == text.hex

exportPrivateKey(w, password) ==
    IF password = ""
    THEN [err |-> "PasswordRequired"]
    ELSE [err |-> "none",
          value |-> HexEncode(createCipher(password, w.privateKey))]

(* the deciphering comes first, then new Wallet() with its own key pair,   *)
(* then the two assignments                                                *)
importPrivateKey(encryptedPrivateKey, password, k, t) ==
    LET decrypted == createDecipher(password, HexDecode(encryptedPrivateKey))
        wallet == Wallet(Null, k, t)
    IN  IF decrypted.err # "none"
        THEN [err |-> decrypted.err]
        ELSE [err |-> "none",
              value |-> [wallet EXCEPT
                            !.privateKey = decrypted.value,
                            !.address = generateAddress(wallet.publicKey)]]

(* path.join(directory, `${this.name}.json`) in the wallet directory *)
WalletFile(name) == name \o ".json"

(* JSON.stringify(walletData, null, 2): the members in declaration order *)
WalletJson(w, t) ==
    <<(<<"name", w.name>>), (<<"address", w.address>>),
      (<<"publicKey", w.publicKey>>), (<<"privateKey", w.privateKey>>),
      (<<"createdAt", t>>)>>

(* JSON.parse(text)[member] *)
JsonMember(text, member) ==
    text[CHOOSE i \in 1..Len(text) : text[i][1] = member][2]

(* Wallet.load of a file that exists: new Wallet(), then the four fields  *)
(* are overwritten with the members of the file                           *)
load(text, k, t) ==
    [Wallet(Null, k, t) EXCEPT
        !.name = JsonMember(text, "name"),
        !.address = JsonMember(text, "address"),
        !.publicKey = JsonMember(text, "publicKey"),
        !.privateKey = JsonMember(text, "privateKey")]

(* no Wallet object yet, an empty wallet directory *)
NoWallets ==
    /\ wallets = <<>>
    /\ files = EmptyMap
    /\ keyPairs = 0
    /\ walletCall = [op |-> "none", err |-> "none"]

NoRet == [op |-> "none", err |-> "none", emitted |-> <<>>]

(* mutant: initializeTestAccounts presets a balance *)
InitFunded ==
    /\ now = 0
    /\ arrays = <<(<<>>), (<<>>)>>
    /\ chain = <<Block(0, 1, <<>>, ZeroHash)>>
    /\ difficulty = DefaultDifficulty
    /\ pendingTransactions = 2
    /\ balances = MapSet(EmptyMap, "A", 10 * Coin)
    /\ tokens = EmptyMap
    /\ tokenInfo = EmptyMap
    /\ nextId = 1
    /\ ret = [op |-> "none", err |-> "none", emitted |-> <<>>]
    /\ miner = [isRunning |-> FALSE, loops |-> 0]
    /\ miningPool = [isRunning |-> FALSE]
    /\ call = "none"
    /\ NoWallets

(* new Blockchain(): array 1 is the genesis block's, array 2 the pool *)
Init ==
    /\ now = 0
    /\ arrays = <<(<<>>), (<<>>)>>
    /\ chain = <<createGenesisBlock(0, 1)>>
    /\ difficulty = DefaultDifficulty
    /\ pendingTransactions = 2
    /\ balances = EmptyMap
    /\ tokens = EmptyMap
    /\ tokenInfo = EmptyMap
    /\ nextId = 1
    /\ ret = NoRet
    /\ miner = NewMiner
    /\ miningPool = NewPool
    /\ call = "none"
    /\ NoWallets

pending == arrays[pendingTransactions]

(* The pool is bounded by MaxPending submissions; a pool left uncleared by *)
(* a minePendingTransactions call that threw also holds that call's reward *)
(* transaction, which does not count.                                      *)
PoolLimit ==
    MaxPending + (IF \E i \in 1..Len(chain) :
                        chain[i].transactions = pendingTransactions
                  THEN 1 ELSE 0)

(* a caller builds a transaction, sets its signature (sign, or left null)  *)
(* and passes it to addTransaction                                         *)
addTransaction(tx) ==
    LET err == addTransactionError(tx, balances)
    IN  /\ Len(chain) < MaxChain
        /\ Len(pending) < PoolLimit
        /\ IF err = "none"
           THEN /\ arrays' = [arrays EXCEPT ![pendingTransactions] =
                                                Append(@, tx)]
                /\ nextId' = nextId + 1
                /\ ret' = [op |-> "addTransaction", err |-> "none",
                           emitted |-> <<[name |-> "transactionAdded",
                                          arg |-> tx.id]>>]
           ELSE /\ UNCHANGED <<arrays, nextId>>
                /\ ret' = [op |-> "addTransaction", err |-> err,
                           emitted |-> <<>>]
        /\ UNCHANGED <<chain, pendingTransactions, difficulty, balances,
                       tokens, tokenInfo, now>>

(* new Transaction(...), then sign() or a signature left null, then        *)
(* addTransaction                                                          *)
RequestTransaction(r) ==
    [Transaction(nextId, r.from, r.to, r.amount, r.type, r.data, r.customFee,
                 now)
        EXCEPT !.signature = r.signature]

SubmitTransaction ==
    /\ \E r \in Requests : addTransaction(RequestTransaction(r))
    /\ UNCHANGED <<minerVars, walletVars>>

SubmitPow ==
    /\ \E r \in PowRequests : addTransaction(RequestTransaction(r))
    /\ UNCHANGED <<minerVars, walletVars>>

(* mutant: the reward transaction pays the block reward, fee included *)
RewardTransactionWithFee(id, miningRewardAddress, t) ==
    Transaction(id, Null, miningRewardAddress, miningReward + baseFee,
                "mining_reward", EmptyData, NullFee, t)

(* the reward transaction minePendingTransactions synthesizes *)
RewardTransaction(id, miningRewardAddress, t) ==
    Transaction(id, Null, miningRewardAddress, miningReward, "mining_reward",
                EmptyData, NullFee, t)

minePendingTransactions(miningRewardAddress) ==
    LET rewardTransaction == RewardTransaction(nextId, miningRewardAddress, now)
        txs == Append(pending, rewardTransaction)
        block == mineBlock(Block(now, pendingTransactions, txs,
                                 getLatestBlock(chain).hash),
                           txs, difficulty, miningRewardAddress)
        st == updateBalances([bal |-> balances, tok |-> tokens,
                              err |-> "none"], txs)
    IN  /\ Len(chain) < MaxChain
        /\ nextId' = nextId + 1
        /\ chain' = Append(chain, block)
        /\ balances' = st.bal
        /\ tokens' = st.tok
        /\ IF st.err = "none"
           THEN /\ arrays' = Append([arrays EXCEPT ![pendingTransactions] =
                                                       txs], <<>>)
                /\ pendingTransactions' = Len(arrays) + 1
                /\ ret' = [op |-> "minePendingTransactions", err |-> "none",
                           emitted |-> <<[name |-> "blockMined",
                                          arg |-> Len(chain) + 1]>>,
                           arg |-> miningRewardAddress,
                           value |-> Len(chain) + 1]
           ELSE /\ arrays' = [arrays EXCEPT ![pendingTransactions] = txs]
                /\ UNCHANGED pendingTransactions
                /\ ret' = [op |-> "minePendingTransactions", err |-> st.err,
                           emitted |-> <<>>, arg |-> miningRewardAddress]
        /\ now' = now + 1
        /\ UNCHANGED <<difficulty, tokenInfo>>

Mine ==
    /\ \E miningRewardAddress \in Addresses :
          minePendingTransactions(miningRewardAddress)
    /\ UNCHANGED <<minerVars, walletVars>>

createToken(name, symbol, totalSupply, creator) ==
    IF name \in DOMAIN tokenInfo
    THEN /\ ret' = [op |-> "createToken", err |-> "TokenAlreadyExists",
                    emitted |-> <<>>]
         /\ UNCHANGED <<chain, arrays, pendingTransactions, difficulty,
                        balances, tokens, tokenInfo, now, nextId>>
    ELSE /\ tokenInfo' = MapSet(tokenInfo, name,
                                [name |-> name, symbol |-> symbol,
                                 totalSupply |-> totalSupply,
                                 creator |-> creator, createdAt |-> now])
         /\ tokens' = MapSet(tokens, creator,
                             MapSet(MapGetOr(tokens, creator, EmptyMap),
                                    name, totalSupply))
         /\ ret' = [op |-> "createToken", err |-> "none", emitted |-> <<>>]
         /\ UNCHANGED <<chain, arrays, pendingTransactions, difficulty,
                        balances, now, nextId>>

CreateToken ==
    /\ \E name \in Tokens, totalSupply \in Supplies, creator \in Creators :
          createToken(name, "SYM", totalSupply, creator)
    /\ UNCHANGED <<minerVars, walletVars>>

(* Miner.setDifficulty *)
setDifficulty(d) ==
    /\ difficulty' = d
    /\ ret' = [op |-> "setDifficulty", err |-> "none", emitted |-> <<>>]
    /\ UNCHANGED <<chain, arrays, pendingTransactions, balances, tokens,
                   tokenInfo, now, nextId>>

SetDifficulty ==
    /\ \E d \in 1..MaxDifficulty : setDifficulty(d)
    /\ UNCHANGED <<minerVars, walletVars>>

Next == SubmitTransaction \/ Mine \/ CreateToken

Spec == Init /\ [][Next]_vars

(* the ledger under difficulty changes *)
NextPow == SubmitPow \/ Mine \/ SetDifficulty

SpecPow == Init /\ [][NextPow]_vars

(* A transaction is built (and signed or not) and put in the pool array;   *)
(* isValid() is then called on it, as hasValidTransactions does for every  *)
(* transaction of a block.                                                 *)
InitValid ==
    \E r \in ValidityInputs :
        /\ now = 0
        /\ arrays = <<(<<>>),
                      <<[Transaction(1, r.from, r.to, r.amount, r.type,
                                     r.data, r.customFee, 0)
                            EXCEPT !.signature = r.signature]>>>>
        /\ chain = <<createGenesisBlock(0, 1)>>
        /\ difficulty = DefaultDifficulty
        /\ pendingTransactions = 2
        /\ balances = EmptyMap
        /\ tokens = EmptyMap
        /\ tokenInfo = EmptyMap
        /\ nextId = 2
        /\ ret = NoRet
        /\ miner = NewMiner
        /\ miningPool = NewPool
        /\ call = "none"
        /\ NoWallets

isValidCall ==
    /\ ret.op = "none"
    /\ ret' = [op |-> "isValid", err |-> "none", emitted |-> <<>>,
               value |-> isValid(pending[1])]
    /\ UNCHANGED <<chain, arrays, pendingTransactions, difficulty, balances,
                   tokens, tokenInfo, now, nextId>>
    /\ UNCHANGED <<minerVars, walletVars>>

SpecValid == InitValid /\ [][isValidCall]_vars

(* The read-only queries: each returns a value and assigns nothing *)
Answer(op, arg, value) ==
    /\ ret' = [op |-> op, err |-> "none", emitted |-> <<>>, arg |-> arg,
               value |-> value]
    /\ UNCHANGED <<chain, arrays, pendingTransactions, difficulty, balances,
                   tokens, tokenInfo, now, nextId>>
    /\ UNCHANGED <<minerVars, walletVars>>

QueryBalance ==
    \E a \in Addresses : Answer("getBalance", a, getBalance(balances, a))

QueryTokenBalance ==
    \E a \in Addresses, t \in Tokens :
        Answer("getTokenBalance", <<a, t>>, getTokenBalance(tokens, a, t))

QueryStats ==
    Answer("getStats", Null,
           getStats(chain, arrays, balances, tokenInfo, difficulty, pending))

QuerySearchTransaction ==
    \E txId \in 1..nextId :
        Answer("searchTransaction", txId,
               searchTransaction(chain, arrays, txId))

QuerySearchBlock ==
    \/ \E height \in 0..MaxChain :
          Answer("searchBlock", height, searchBlock(chain, height))
    \/ \E i \in 1..Len(chain) :
          Answer("searchBlock", chain[i].hash,
                 searchBlockByHash(chain, chain[i].hash))

QueryAddressTransactions ==
    \E a \in Addresses :
        Answer("getAddressTransactions", a,
               getAddressTransactions(chain, arrays, a))

QueryChainValid ==
    Answer("isChainValid", Null, isChainValid(chain, arrays))

Query ==
    \/ QueryBalance
    \/ QueryTokenBalance
    \/ QueryStats
    \/ QuerySearchTransaction
    \/ QuerySearchBlock
    \/ QueryAddressTransactions
    \/ QueryChainValid

(* the ledger with its queries *)
NextQuery == SubmitPow \/ Mine \/ CreateToken \/ Query

SpecQuery == Init /\ [][NextQuery]_vars

(* the ledger driven through its programming interface *)
SubmitApi ==
    /\ \E r \in ApiRequests : addTransaction(RequestTransaction(r))
    /\ UNCHANGED <<minerVars, walletVars>>

NextApi == SubmitApi \/ Mine \/ CreateToken

SpecApi == Init /\ [][NextApi]_vars

(* Miner and MiningPool (src/miner.js).  One Miner, of address            *)
(* minerAddress, is the member of one MiningPool; addMiner returns the    *)
(* Miner object, so start() and stop() are called on it directly as well  *)
(* as by the pool.  JavaScript runs one call at a time: a miningLoop      *)
(* activation runs from one await to the next without interleaving, and   *)
(* every live activation is suspended at one of its three sleeps, which   *)
(* all resume at the loop's head; miner.loops counts the live             *)
(* activations.                                                           *)
minerAddress == "A"

MaxLoops == 2

(* mutant: the loop mines whether or not the pool is empty *)
miningLoopBodyUngated == minePendingTransactions(minerAddress)

(* one pass of miningLoop's body, from the loop's head (isRunning was     *)
(* true) to the next sleep: the pool is empty and nothing happens, or     *)
(* minePendingTransactions is called; an error is caught and logged       *)
miningLoopBody ==
    IF Len(pending) = 0
    THEN UNCHANGED ledgerVars
    ELSE minePendingTransactions(minerAddress)

(* miner.start(): returns at once when running, else sets isRunning and   *)
(* runs miningLoop() up to its first await                                *)
start ==
    IF miner.isRunning
    THEN UNCHANGED <<miner, ledgerVars>>
    ELSE /\ miner.loops < MaxLoops
         /\ miner' = [isRunning |-> TRUE, loops |-> miner.loops + 1]
         /\ miningLoopBody

(* miner.stop() *)
stop ==
    /\ miner' = [miner EXCEPT !.isRunning = FALSE]
    /\ UNCHANGED ledgerVars

(* a sleep of a miningLoop activation ends: the while condition is        *)
(* evaluated, the activation returns or runs the body once more           *)
miningLoop ==
    /\ miner.loops > 0
    /\ IF miner.isRunning
       THEN miningLoopBody /\ UNCHANGED miner
       ELSE /\ miner' = [miner EXCEPT !.loops = @ - 1]
            /\ UNCHANGED ledgerVars

(* pool.startPool() and pool.stopPool(): a no-op when the pool already is *)
(* in the wanted state, else every member is started or stopped           *)
startPool ==
    IF miningPool.isRunning
    THEN UNCHANGED <<miner, miningPool, ledgerVars>>
    ELSE /\ miningPool' = [isRunning |-> TRUE]
         /\ start

stopPool ==
    IF ~miningPool.isRunning
    THEN UNCHANGED <<miner, miningPool, ledgerVars>>
    ELSE /\ miningPool' = [isRunning |-> FALSE]
         /\ stop

Start == start /\ call' = "start" /\ UNCHANGED <<miningPool, walletVars>>

Stop == stop /\ call' = "stop" /\ UNCHANGED <<miningPool, walletVars>>

MiningLoop == miningLoop /\ call' = "miningLoop" /\ UNCHANGED <<miningPool, walletVars>>

StartPool == startPool /\ call' = "startPool" /\ UNCHANGED walletVars

StopPool == stopPool /\ call' = "stopPool" /\ UNCHANGED walletVars

SubmitMiner ==
    /\ \E r \in MinerRequests : addTransaction(RequestTransaction(r))
    /\ UNCHANGED <<minerVars, walletVars>>

NextMiner ==
    SubmitMiner \/ Start \/ Stop \/ MiningLoop \/ StartPool \/ StopPool

SpecMiner == Init /\ [][NextMiner]_vars

(* the same with the timers firing: a sleeping miningLoop activation is   *)
(* eventually resumed (setTimeout in Miner.sleep)                         *)
SpecMinerLive == Init /\ [][NextMiner]_vars /\ WF_vars(MiningLoop)

----------------------------------------------------------------------------
(* Explorer: POST /api/transfer (src/explorer.js), seen as a function of   *)
(* the request body and of the sender's balance.  The body is parsed JSON, *)
(* so customFee is absent (undefined), null, a number or a string; values  *)
(* carry their JavaScript type, and the arithmetic is JavaScript's.        *)

Num(n) == [type |-> "number", val |-> n]

NaN == [type |-> "NaN", val |-> 0]

(* a string that is not the text of a number *)
Str == [type |-> "string", val |-> 0]

Undefined == [type |-> "undefined", val |-> 0]

JsNull == [type |-> "null", val |-> 0]

(* a + b: a string operand makes it a concatenation *)
JsAdd(a, b) ==
    IF a.type = "number" /\ b.type = "number" THEN Num(a.val + b.val)
    ELSE IF a.type = "string" \/ b.type = "string" THEN Str
    ELSE NaN

(* a - b: both operands are converted to numbers *)
JsSub(a, b) ==
    IF a.type = "number" /\ b.type = "number" THEN Num(a.val - b.val)
    ELSE NaN

(* a < b with a a number: false when b does not convert to a number *)
JsLess(a, b) == a.type = "number" /\ b.type = "number" /\ a.val < b.val

ApiBalances == {0, 10 * Coin, 20 * Coin, 30 * Coin}

TransferAmounts == {0, 6 * Coin, LargeAmount}

ApiCustomFees == {Undefined, JsNull, Num(0), Num(5), Num(20 * Coin), Str}

TransferBodies ==
    [balance : ApiBalances, amount : TransferAmounts,
     customFee : ApiCustomFees]

(* the fee set by new Transaction(from, to, amount, 'transfer', {},        *)
(* customFee): the parameter's default null replaces undefined             *)
TransactionFee(amount, customFee) ==
    LET fee == IF customFee = Undefined THEN JsNull ELSE customFee
    IN  IF fee # JsNull THEN fee ELSE Num(calculateFee(amount))

(* The handler, for a body that names an existing sender wallet and a      *)
(* recipient and carries a number as amount: the status of the response,   *)
(* the fee of the pre-check, the fee of the transaction put in the pool by *)
(* addTransaction, and the sender's balance once updateBalances has        *)
(* applied the transaction.                                                *)
apiTransfer(body) ==
    LET amount == Num(body.amount)
        balance == Num(body.balance)
        fee == Num(Max(baseFee, body.amount \div Coin))
        txFee == TransactionFee(body.amount, body.customFee)
        rejected(status) ==
            [status |-> status, precheck |-> fee, fee |-> Undefined,
             committed |-> balance]
    IN  IF body.amount = 0 THEN rejected(400)
        ELSE IF body.amount <= 0 THEN rejected(400)
        ELSE IF JsLess(balance, JsAdd(amount, fee)) THEN rejected(400)
        ELSE IF JsLess(balance, JsAdd(amount, txFee)) THEN rejected(500)
        ELSE [status |-> 200, precheck |-> fee, fee |-> txFee,
              committed |-> JsSub(JsSub(balance, amount), txFee)]

InitExplorer ==
    /\ now = 0
    /\ arrays = <<(<<>>), (<<>>)>>
    /\ chain = <<createGenesisBlock(0, 1)>>
    /\ difficulty = DefaultDifficulty
    /\ pendingTransactions = 2
    /\ balances = EmptyMap
    /\ tokens = EmptyMap
    /\ tokenInfo = EmptyMap
    /\ nextId = 1
    /\ \E body \in TransferBodies :
          ret = [op |-> "none", err |-> "none", emitted |-> <<>>,
                 arg |-> body]
    /\ miner = NewMiner
    /\ miningPool = NewPool
    /\ call = "none"
    /\ NoWallets

PostTransfer ==
    /\ ret.op = "none"
    /\ ret' = [op |-> "POST /api/transfer", err |-> "none", emitted |-> <<>>,
               arg |-> ret.arg, value |-> apiTransfer(ret.arg)]
    /\ UNCHANGED <<chain, arrays, pendingTransactions, difficulty, balances,
                   tokens, tokenInfo, now, nextId>>
    /\ UNCHANGED <<minerVars, walletVars>>

SpecExplorer == InitExplorer /\ [][PostTransfer]_vars

----------------------------------------------------------------------------
(* The Wallet operations, on the wallets of one wallet directory *)

NewWallet ==
    /\ Len(wallets) < MaxWallets
    /\ \E name \in WalletNames \cup {Null} :
          wallets' = Append(wallets, Wallet(name, keyPairs + 1, now))
    /\ keyPairs' = keyPairs + 1
    /\ walletCall' = [op |-> "new", err |-> "none",
                      wallet |-> Len(wallets) + 1]
    /\ UNCHANGED <<files, ledgerVars, minerVars>>

Save ==
    \E i \in 1..Len(wallets) :
        /\ files' = MapSet(files, WalletFile(wallets[i].name),
                           WalletJson(wallets[i], now))
        /\ walletCall' = [op |-> "save", err |-> "none", wallet |-> i,
                          file |-> WalletFile(wallets[i].name)]
        /\ UNCHANGED <<wallets, keyPairs, ledgerVars, minerVars>>

Load ==
    /\ UNCHANGED <<ledgerVars, minerVars>>
    /\ \E filename \in {WalletFile(name) : name \in WalletNames} :
        IF filename \notin DOMAIN files
        THEN /\ walletCall' = [op |-> "load", err |-> "NoSuchFile",
                               file |-> filename]
             /\ UNCHANGED <<wallets, files, keyPairs>>
        ELSE /\ Len(wallets) < MaxWallets
             /\ wallets' = Append(wallets,
                                  load(files[filename], keyPairs + 1, now))
             /\ keyPairs' = keyPairs + 1
             /\ walletCall' = [op |-> "load", err |-> "none",
                               file |-> filename,
                               wallet |-> Len(wallets) + 1]
             /\ UNCHANGED files

ExportPrivateKey ==
    \E i \in 1..Len(wallets), password \in Passwords :
        LET r == exportPrivateKey(wallets[i], password)
        IN  /\ walletCall' =
                  IF r.err # "none"
                  THEN [op |-> "exportPrivateKey", err |-> r.err,
                        wallet |-> i]
                  ELSE [op |-> "exportPrivateKey", err |-> "none",
                        wallet |-> i, password |-> password,
                        value |-> r.value]
            /\ UNCHANGED <<wallets, files, keyPairs, ledgerVars, minerVars>>

(* importPrivateKey of the text the last exportPrivateKey returned *)
ImportPrivateKey ==
    /\ walletCall.op = "exportPrivateKey"
    /\ walletCall.err = "none"
    /\ Len(wallets) < MaxWallets
    /\ \E password \in Passwords :
          LET r == importPrivateKey(walletCall.value, password,
                                    keyPairs + 1, now)
          IN  IF r.err # "none"
              THEN /\ walletCall' = [op |-> "importPrivateKey",
                                     err |-> r.err]
                   /\ UNCHANGED <<wallets, keyPairs>>
              ELSE /\ wallets' = Append(wallets, r.value)
                   /\ keyPairs' = keyPairs + 1
                   /\ walletCall' =
                         [op |-> "importPrivateKey", err |-> "none",
                          exported |-> walletCall.wallet,
                          password |-> password,
                          wallet |-> Len(wallets) + 1]
    /\ UNCHANGED <<files, ledgerVars, minerVars>>

NextWallet ==
    NewWallet \/ Save \/ Load \/ ExportPrivateKey \/ ImportPrivateKey

SpecWallet == Init /\ [][NextWallet]_vars

----------------------------------------------------------------------------
(* Properties *)

TxsOf(i) == arrays[chain[i].transactions]

(* a step that is a call of minePendingTransactions *)
MineStep == ret'.op = "minePendingTransactions" /\ nextId' = nextId + 1

MineReturns == MineStep /\ ret'.err = "none"

(* C1: every block after the genesis block stores the digest of its       *)
(* current fields, so isChainValid() is true, in every state reachable by *)
(* addTransaction, minePendingTransactions and createToken calls.         *)
HashIntegrity ==
    /\ \A i \in 2..Len(chain) : chain[i].hash = calculateHash(chain[i], TxsOf(i))
    /\ isChainValid(chain, arrays)

(* C2: every block's previousHash is the hash of the block before it, and *)
(* the first block has no transactions and previousHash "0".              *)
ChainLinkage ==
    /\ \A i \in 2..Len(chain) : chain[i].previousHash = chain[i - 1].hash
    /\ Len(chain) >= 1
    /\ TxsOf(1) = <<>>
    /\ chain[1].previousHash = ZeroHash

ChainLinkageWitness ==
    /\ Len(chain) = 3
    /\ Len(TxsOf(2)) >= 2
    /\ chain[3].previousHash # chain[1].hash

(* C3: a block appended by minePendingTransactions has a hash whose first *)
(* d hexadecimal digits are 0, d being the difficulty when the call was   *)
(* made, and that hash is the digest of the block at its final nonce.     *)
ProofOfWorkAdmission ==
    [][Len(chain') = Len(chain) + 1 =>
          LET b == chain'[Len(chain')]
          IN  /\ \A k \in 1..difficulty : b.hash.hex[k] = 0
              /\ b.hash = calculateHash(b, arrays'[b.transactions])]_vars

ProofOfWorkWitness ==
    /\ ret.op = "minePendingTransactions"
    /\ difficulty # DefaultDifficulty
    /\ chain[Len(chain)].nonce > 0
    /\ Len(TxsOf(Len(chain))) >= 2

(* C4: on a valid chain, changing any one field of any transaction of any *)
(* committed block, the stored hashes left as they are, makes             *)
(* isChainValid() false.                                                  *)
TxFields == {"id", "from", "to", "amount", "type", "data", "timestamp", "fee",
             "signature"}

TamperValues(f) ==
    CASE f = "id" -> 0..nextId
      [] f \in {"from", "to"} -> Addresses \cup {Null, "C"}
      [] f = "amount" -> Amounts \cup {LargeAmount, 0, 1}
      [] f = "type" -> {"transfer", "mining_reward", "mint_token",
                        "transfer_token"}
      [] f = "data" -> TokenData \cup {EmptyData, [tokenName |-> "U"]}
      [] f = "timestamp" -> 0..(now + 1)
      [] f = "fee" -> {0, baseFee, baseFee + 1}
      [] OTHER -> Signatures \cup {"forged"}

Tampered(ref, j, f, v) == [arrays EXCEPT ![ref][j][f] = v]

TamperDetection ==
    isChainValid(chain, arrays) =>
        \A i \in 2..Len(chain) : \A j \in 1..Len(TxsOf(i)) :
            \A f \in TxFields : \A v \in TamperValues(f) :
                v # TxsOf(i)[j][f] =>
                    ~isChainValid(chain, Tampered(chain[i].transactions, j, f, v))

TamperWitness ==
    /\ isChainValid(chain, arrays)
    /\ Len(chain) = 3
    /\ \E j \in 1..Len(TxsOf(2)) : TxsOf(2)[j].type = "transfer_token"
    /\ \E j \in 1..Len(TxsOf(3)) : TxsOf(3)[j].type = "transfer"

(* C5: the chain never gets shorter, and a block once appended keeps its  *)
(* transaction list, previousHash and hash.                               *)
AppendOnly ==
    [][/\ Len(chain') >= Len(chain)
       /\ \A i \in 1..Len(chain) :
             /\ chain'[i].previousHash = chain[i].previousHash
             /\ chain'[i].hash = chain[i].hash
             /\ arrays'[chain'[i].transactions] = TxsOf(i)]_vars

(* C6: when minePendingTransactions returns, the chain is one block       *)
(* longer, the returned block is the last one, the pool is empty, and the *)
(* block holds the pool as it was at the call, in order, followed by one  *)
(* mining_reward of miningReward to the miner address.                    *)
CommitPostcondition ==
    [][MineReturns =>
          LET txs == arrays'[chain'[Len(chain')].transactions]
              n == Len(pending)
          IN  /\ Len(chain') = Len(chain) + 1
              /\ ret'.value = Len(chain')
              /\ arrays'[pendingTransactions'] = <<>>
              /\ Len(txs) = n + 1
              /\ SubSeq(txs, 1, n) = pending
              /\ txs[n + 1].type = "mining_reward"
              /\ txs[n + 1].to = ret'.arg
              /\ txs[n + 1].amount = miningReward]_vars

CommitWitness ==
    /\ ret.op = "minePendingTransactions"
    /\ ret.err = "none"
    /\ Len(TxsOf(ret.value)) = 3
    /\ pending = <<>>

(* C7: committing a transfer acts as balances[from] -= amount + fee       *)
(* followed by balances[to] += amount, for every from and to; a           *)
(* mining_reward adds its amount to its recipient; nobody gets the fee.   *)
ClaimedEffect(bal, tx) ==
    CASE tx.type = "transfer" ->
           LET b1 == MapSet(bal, tx.from,
                            MapGetOr(bal, tx.from, 0) - (tx.amount + tx.fee))
           IN  MapSet(b1, tx.to, MapGetOr(b1, tx.to, 0) + tx.amount)
      [] tx.type = "mining_reward" ->
           MapSet(bal, tx.to, MapGetOr(bal, tx.to, 0) + tx.amount)
      [] OTHER -> bal

RECURSIVE ClaimedBalances(_, _)
ClaimedBalances(bal, txs) ==
    IF txs = <<>> THEN bal
    ELSE ClaimedBalances(ClaimedEffect(bal, Head(txs)), Tail(txs))

TransferEffect ==
    [][MineReturns =>
          balances' = ClaimedBalances(balances,
                          arrays'[chain'[Len(chain')].transactions])]_vars

(* C8: committing a block of one transfer with fee f and the reward r     *)
(* raises the sum of all balances by exactly r - f.                       *)
ConservationOfValue ==
    [][(MineReturns /\ Len(pending) = 1 /\ pending[1].type = "transfer") =>
          MapSum(balances') = MapSum(balances) + miningReward - pending[1].fee]_vars

(* C9: a minePendingTransactions call made while the pool holds a         *)
(* transfer_token whose sender has less than its amount raises            *)
(* InsufficientTokenBalance and leaves chain, pool, balances and token    *)
(* balances as they were.                                                 *)
AtomicCommitOnTokenFailure ==
    [][(/\ MineStep
        /\ \E j \in 1..Len(pending) :
              /\ pending[j].type = "transfer_token"
              /\ getTokenBalance(tokens, pending[j].from,
                                 pending[j].data.tokenName) < pending[j].amount)
       => /\ ret'.err = "InsufficientTokenBalance"
          /\ chain' = chain
          /\ arrays'[pendingTransactions'] = pending
          /\ balances' = balances
          /\ tokens' = tokens]_vars

(* C10 *)
Rejected(e) ==
    /\ ret'.err = e
    /\ ret'.emitted = <<>>
    /\ UNCHANGED <<chain, arrays, pendingTransactions, balances, tokens>>

Accepted(tx) ==
    /\ ret'.err = "none"
    /\ arrays'[pendingTransactions'] = Append(pending, tx)
    /\ ret'.emitted = <<[name |-> "transactionAdded", arg |-> tx.id]>>

Overspends(tx) == getBalance(balances, tx.from) < tx.amount + tx.fee

WellFormed(tx) ==
    /\ tx.from # Null
    /\ tx.to # Null
    /\ tx.signature # Null
    /\ tx.signature # ""

TransferRequests == {r \in Requests : r.type = "transfer"}

WellFormedTransfers ==
    {r \in TransferRequests :
        r.from # Null /\ r.to # Null /\ r.signature \notin {Null, ""}}

(* C10 as stated: addTransaction of any transfer with                     *)
(* getBalance(from) < amount + fee fails with InsufficientFunds, changing *)
(* nothing and emitting nothing; a transfer that is covered, has both     *)
(* parties and a non-empty signature is accepted.                         *)
OverspendRejectedAsStated ==
    [][\A r \in TransferRequests :
          LET tx == RequestTransaction(r)
          IN  addTransaction(tx) =>
                 IF Overspends(tx) THEN Rejected("InsufficientFunds")
                 ELSE (WellFormed(tx) => Accepted(tx))]_vars

(* C10 amended: addTransaction of a transfer that has both parties and a  *)
(* non-empty signature fails with InsufficientFunds when                  *)
(* getBalance(from) < amount + fee, changing nothing and emitting         *)
(* nothing, and is accepted otherwise.                                    *)
OverspendRejected ==
    [][\A r \in WellFormedTransfers :
          LET tx == RequestTransaction(r)
          IN  addTransaction(tx) =>
                 IF Overspends(tx) THEN Rejected("InsufficientFunds")
                 ELSE Accepted(tx)]_vars

OverspendWitness ==
    /\ ret.op = "addTransaction"
    /\ ret.err = "InsufficientFunds"
    /\ getBalance(balances, "A") > 0
    /\ \E j \in 1..Len(pending) : pending[j].type = "transfer"

(* C11: addTransaction of a transfer or transfer_token with an absent     *)
(* from or to fails with MissingParties, and one with both parties and an *)
(* absent or empty signature fails with InvalidSignature; each rejection  *)
(* leaves pool, chain, balances and token balances unchanged and emits    *)
(* nothing.                                                               *)
UserRequests == {r \in Requests : r.type \in {"transfer", "transfer_token"}}

MissingParty(r) == r.from = Null \/ r.to = Null

IllFormedRequests ==
    {r \in UserRequests : MissingParty(r) \/ r.signature \in {Null, ""}}

IllFormedRejected ==
    /\ [](\A r \in IllFormedRequests :
             addTransactionError(RequestTransaction(r), balances) =
                 IF MissingParty(r) THEN "MissingParties"
                 ELSE "InvalidSignature")
    /\ [][(/\ ret'.op = "addTransaction"
           /\ ret'.err \in {"MissingParties", "InvalidSignature"})
          => Rejected(ret'.err)]_vars

IllFormedWitness ==
    /\ ret.op = "addTransaction"
    /\ ret.err = "InvalidSignature"
    /\ Len(pending) >= 1
    /\ Len(chain) >= 2

(* C12: addTransaction of a mint_token transaction with a null from and a *)
(* present to does not fail with MissingParties: it is accepted into the  *)
(* pending pool.                                                          *)
SystemMintRequests ==
    {r \in Requests : r.type = "mint_token" /\ r.from = Null /\ r.to # Null}

MintBypassesSenderCheck ==
    [][\A r \in SystemMintRequests :
          LET tx == RequestTransaction(r)
          IN  addTransaction(tx) =>
                 (ret'.err # "MissingParties" /\ Accepted(tx))]_vars

(* C13: the balance check of addTransaction reads committed balances      *)
(* only: a transfer covered by its sender's committed balance is accepted *)
(* even when it and a transfer of the same sender already in the pool     *)
(* jointly exceed that balance, and a commit applies both, so that the    *)
(* sender's committed balance goes negative when the sender is not the    *)
(* miner.                                                                 *)
Cost(tx) == tx.amount + tx.fee

JointOverspend(pool, bal) ==
    /\ Len(pool) = 2
    /\ \A j \in 1..2 : /\ pool[j].type = "transfer"
                        /\ pool[j].from = pool[1].from
                        /\ pool[j].to # pool[j].from
                        /\ Cost(pool[j]) <= getBalance(bal, pool[1].from)
    /\ Cost(pool[1]) + Cost(pool[2]) > getBalance(bal, pool[1].from)

PendingOverspend ==
    [][/\ (Len(pending) = 1 /\ pending[1].type = "transfer") =>
            \A r \in WellFormedTransfers :
                LET tx == RequestTransaction(r)
                IN  (/\ addTransaction(tx)
                     /\ tx.from = pending[1].from
                     /\ ~Overspends(tx)
                     /\ Cost(tx) + Cost(pending[1])
                            > getBalance(balances, tx.from))
                    => Accepted(tx)
       /\ (MineStep /\ JointOverspend(pending, balances)) =>
            LET a == pending[1].from
                spent == Cost(pending[1]) + Cost(pending[2])
            IN  /\ ret'.err = "none"
                /\ getBalance(balances', a) =
                      getBalance(balances, a) - spent
                      + (IF ret'.arg = a THEN miningReward ELSE 0)
                /\ ret'.arg # a => getBalance(balances', a) < 0]_vars

PendingOverspendWitness ==
    /\ ret.op = "minePendingTransactions"
    /\ ret.err = "none"
    /\ getBalance(balances, "A") < 0
    /\ LET txs == TxsOf(ret.value)
       IN  /\ Len(txs) = 3
           /\ txs[1].type = "transfer" /\ txs[1].from = "A"
           /\ txs[2].type = "transfer" /\ txs[2].from = "A"

(* C14: a transfer_token that is applied leaves the sum of that token's   *)
(* balances over all addresses unchanged, for every from and to (from ==  *)
(* to included) and every amount that passes the balance check.           *)
TokenConservation ==
    [][(/\ MineStep
        /\ \A j \in 1..Len(pending) : pending[j].type = "transfer_token")
       => \A t \in Tokens : TokenSum(tokens', t) = TokenSum(tokens, t)]_vars

(* C15: createToken of a registered name fails with TokenAlreadyExists    *)
(* and leaves the registry and all token balances unchanged; of a new     *)
(* name it registers the metadata and raises the creator's balance of     *)
(* that token by totalSupply.                                             *)
TokenCreation ==
    [][\A name \in Tokens, totalSupply \in Supplies, creator \in Creators :
          createToken(name, "SYM", totalSupply, creator) =>
              IF name \in DOMAIN tokenInfo
              THEN /\ ret'.err = "TokenAlreadyExists"
                   /\ UNCHANGED <<tokenInfo, tokens>>
              ELSE /\ ret'.err = "none"
                   /\ DOMAIN tokenInfo' = DOMAIN tokenInfo \cup {name}
                   /\ tokenInfo'[name].totalSupply = totalSupply
                   /\ tokenInfo'[name].creator = creator
                   /\ getTokenBalance(tokens', creator, name) =
                         getTokenBalance(tokens, creator, name) + totalSupply]_vars

(* C16: a committed mint_token adds its amount to the recipient's balance *)
(* of the named token, whatever the token's registered totalSupply; the   *)
(* sum of a token's balances can exceed its totalSupply.                  *)
Minted(pool, a, t) ==
    SumSeq([j \in 1..Len(pool) |->
              IF pool[j].to = a /\ pool[j].data.tokenName = t
              THEN pool[j].amount ELSE 0])

MintUncapped ==
    [][(/\ MineStep
        /\ Len(pending) >= 1
        /\ \A j \in 1..Len(pending) : pending[j].type = "mint_token")
       => /\ ret'.err = "none"
          /\ \A a \in Addresses, t \in Tokens :
                getTokenBalance(tokens', a, t) =
                    getTokenBalance(tokens, a, t) + Minted(pending, a, t)]_vars

MintUncappedWitness ==
    /\ ret.op = "minePendingTransactions"
    /\ ret.err = "none"
    /\ \E j \in 1..Len(TxsOf(ret.value)) :
          TxsOf(ret.value)[j].type = "mint_token"
    /\ "T" \in DOMAIN tokenInfo
    /\ TokenSum(tokens, "T") > tokenInfo["T"].totalSupply

(* C17: no transfer or transfer_token with amount <= 0 is ever in the     *)
(* pending pool or in a committed block (creating one fails with          *)
(* InvalidAmount).                                                        *)
PositiveAmounts ==
    \A k \in 1..Len(arrays) : \A j \in 1..Len(arrays[k]) :
        arrays[k][j].type \in {"transfer", "transfer_token"} =>
            arrays[k][j].amount > 0

(* C18: isValid() is true for every mining_reward and mint_token          *)
(* whatever its from and signature; for a transfer or transfer_token it   *)
(* is true exactly when from is non-empty and signature is present and    *)
(* non-empty.                                                             *)
ValidityRule ==
    ret.op = "isValid" =>
        LET tx == pending[1]
        IN  ret.value =
              IF tx.type \in {"mining_reward", "mint_token"} THEN TRUE
              ELSE /\ tx.from \notin {Null, ""}
                   /\ tx.signature \notin {Null, ""}

ValidityWitness ==
    /\ ret.op = "isValid"
    /\ ret.value = FALSE
    /\ pending[1].type = "transfer_token"
    /\ pending[1].from = ""
    /\ pending[1].signature \notin {Null, ""}

(* C19: addTransaction rejects a transfer whose signature was not         *)
(* produced by the private key of its from address: it throws and the     *)
(* pool is unchanged.                                                     *)
ForeignSigned ==
    {r \in ApiRequests :
        r.type = "transfer" /\ r.signature # sign(PrivateKey(r.from))}

SignatureVerified ==
    [][\A r \in ForeignSigned :
          addTransaction(RequestTransaction(r)) =>
              (ret'.err # "none" /\ UNCHANGED arrays)]_vars

(* C20: an accepted transaction produces exactly one transactionAdded     *)
(* notification, emitted once the transaction is in the pool, and a       *)
(* rejected one none; every block appended to the chain produces exactly  *)
(* one blockMined notification, carrying that block, emitted once the     *)
(* block is appended and the pool is cleared, so that blockMined          *)
(* notifications follow chain order; no other step emits blockMined.      *)
BlockMined(i) == [name |-> "blockMined", arg |-> i]

NotificationOrder ==
    [][/\ (ret'.op = "addTransaction" /\ nextId' = nextId + 1) =>
            LET pool == arrays'[pendingTransactions']
            IN  /\ Len(pool) = Len(pending) + 1
                /\ ret'.emitted = <<[name |-> "transactionAdded",
                                     arg |-> pool[Len(pool)].id]>>
       /\ (ret'.op = "addTransaction" /\ ret'.err # "none") =>
            ret'.emitted = <<>>
       /\ Len(chain') = Len(chain) + 1 =>
            /\ ret'.emitted = <<BlockMined(Len(chain'))>>
            /\ arrays'[pendingTransactions'] = <<>>
       /\ Len(chain') = Len(chain) =>
            \A k \in 1..Len(ret'.emitted) :
                ret'.emitted[k].name # "blockMined"]_vars

(* C21: minePendingTransactions called with an empty pool returns,        *)
(* appends a block whose only transaction is the mining_reward to the     *)
(* miner, raises the miner's balance by miningReward, and a chain that    *)
(* was valid is still valid.                                              *)
EmptyPoolMining ==
    [][(MineStep /\ pending = <<>>) =>
          LET txs == arrays'[chain'[Len(chain')].transactions]
          IN  /\ ret'.err = "none"
              /\ Len(chain') = Len(chain) + 1
              /\ Len(txs) = 1
              /\ txs[1].type = "mining_reward"
              /\ txs[1].to = ret'.arg
              /\ txs[1].amount = miningReward
              /\ getBalance(balances', ret'.arg) =
                    getBalance(balances, ret'.arg) + miningReward
              /\ isChainValid(chain, arrays) =>
                    isChainValid(chain', arrays')]_vars

EmptyPoolWitness ==
    /\ ret.op = "minePendingTransactions"
    /\ ret.err = "none"
    /\ Len(chain) = 3
    /\ Len(TxsOf(3)) = 1
    /\ getBalance(balances, ret.arg) >= miningReward
    /\ isChainValid(chain, arrays)

(* C22: calls of addTransaction and minePendingTransactions run one at a  *)
(* time, so no transaction is accepted into a pool from which a block has *)
(* been built and which has not been cleared since.                       *)
AcceptStep == ret'.op = "addTransaction" /\ nextId' = nextId + 1

PoolBuiltInto == \E i \in 1..Len(chain) : chain[i].transactions = pendingTransactions

NoAcceptAfterBuild == [][AcceptStep => ~PoolBuiltInto]_vars

(* C23: a freshly constructed Blockchain has a chain of length 1, the     *)
(* genesis block (no transactions, previousHash "0", hash the digest of   *)
(* its fields), an empty pending pool, no balances, no tokens, and        *)
(* isChainValid() is true.                                                *)
Fresh == ret.op = "none"

FreshLedger ==
    Fresh =>
        /\ Len(chain) = 1
        /\ TxsOf(1) = <<>>
        /\ chain[1].previousHash = ZeroHash
        /\ chain[1].hash = calculateHash(chain[1], TxsOf(1))
        /\ pending = <<>>
        /\ balances = EmptyMap
        /\ tokens = EmptyMap
        /\ tokenInfo = EmptyMap
        /\ \A a \in Addresses : getBalance(balances, a) = 0
        /\ isChainValid(chain, arrays)

FreshWitness ==
    /\ Fresh
    /\ Len(chain) = 1
    /\ chain[1].nonce = 0
    /\ difficulty = DefaultDifficulty
    /\ nextId = 1

(* C24: getAddressTransactions(address) returns exactly the transactions  *)
(* of committed blocks whose from or to is address, one entry per block   *)
(* and transaction, each with that block's height and hash, none of them  *)
(* a pending transaction, ordered newest first by transaction timestamp.  *)
CommittedMatches(address) ==
    UNION {{<<i - 1, TxsOf(i)[j].id>> :
               j \in {k \in 1..Len(TxsOf(i)) :
                        \/ TxsOf(i)[k].from = address
                        \/ TxsOf(i)[k].to = address}} :
           i \in 1..Len(chain)}

PendingIds == {pending[j].id : j \in 1..Len(pending)}

AddressTransactionsCommitted(res, address) ==
    /\ {<<res[k].blockHeight, res[k].id>> : k \in 1..Len(res)}
          = CommittedMatches(address)
    /\ Len(res) = Cardinality(CommittedMatches(address))
    /\ \A k \in 1..Len(res) :
          LET i == res[k].blockHeight + 1
          IN  /\ res[k].blockHash = chain[i].hash
              /\ \E j \in 1..Len(TxsOf(i)) :
                    /\ TxsOf(i)[j].id = res[k].id
                    /\ TxsOf(i)[j].amount = res[k].amount
                    /\ TxsOf(i)[j].timestamp = res[k].timestamp
    /\ \A k, l \in 1..Len(res) :
          k < l => res[k].timestamp >= res[l].timestamp

AddressTransactions ==
    ret.op = "getAddressTransactions" =>
        /\ AddressTransactionsCommitted(ret.value, ret.arg)
        /\ \A k \in 1..Len(ret.value) : ret.value[k].id \notin PendingIds

(* C25: every accepted transaction is in at most one committed block, no  *)
(* committed transaction is still in the pending pool, and a commit never *)
(* applies a transaction that an earlier call already applied.            *)
IdsOf(txs) == {txs[j].id : j \in 1..Len(txs)}

CommittedIds == UNION {IdsOf(TxsOf(i)) : i \in 1..Len(chain)}

AppliedOnce ==
    /\ [](\A i, k \in 1..Len(chain) :
             i # k => IdsOf(TxsOf(i)) \cap IdsOf(TxsOf(k)) = {})
    /\ [](CommittedIds \cap PendingIds = {})
    /\ [][MineStep => IdsOf(pending) \cap CommittedIds = {}]_vars

(* C26: isChainValid() is false exactly when some block after the genesis *)
(* block has a transaction whose isValid() is false, or a stored hash     *)
(* that differs from its recomputed digest, or a previousHash that        *)
(* differs from the hash of the block before it; it is true otherwise,    *)
(* and it changes nothing.  Checked on the reachable chains and on the    *)
(* chains obtained from them by overwriting one field.                    *)
ClaimedInvalid(c, heap) ==
    \E i \in 2..Len(c) :
        \/ \E j \in 1..Len(heap[c[i].transactions]) :
              ~isValid(heap[c[i].transactions][j])
        \/ c[i].hash # calculateHash(c[i], heap[c[i].transactions])
        \/ c[i].previousHash # c[i - 1].hash

(* a transaction's signature is erased and its block hashed again *)
Unsigned(i, j) ==
    LET heap == [arrays EXCEPT ![chain[i].transactions][j].signature = Null]
    IN  [c |-> [chain EXCEPT ![i].hash =
                    calculateHash(chain[i], heap[chain[i].transactions])],
         heap |-> heap]

(* a block's stored hash is overwritten *)
Rehashed(i, h) == [c |-> [chain EXCEPT ![i].hash = h], heap |-> arrays]

(* a block's nonce is overwritten *)
Renonced(i) == [c |-> [chain EXCEPT ![i].nonce = @ + 1], heap |-> arrays]

Overwritten ==
    {[c |-> chain, heap |-> arrays]}
    \cup UNION {{Unsigned(i, j) : j \in 1..Len(TxsOf(i))} : i \in 2..Len(chain)}
    \cup {Rehashed(i, h) : i \in 1..Len(chain),
                           h \in {ZeroHash} \cup {chain[k].hash : k \in 1..Len(chain)}}
    \cup {Renonced(i) : i \in 1..Len(chain)}

ChainValidity ==
    /\ [](\A v \in Overwritten :
             isChainValid(v.c, v.heap) = ~ClaimedInvalid(v.c, v.heap))
    /\ [](ret.op = "isChainValid" => ret.value = ~ClaimedInvalid(chain, arrays))
    /\ [][ret'.op = "isChainValid" =>
            UNCHANGED <<chain, arrays, pendingTransactions, difficulty,
                        balances, tokens, tokenInfo>>]_vars

ChainValidityWitness ==
    /\ ret.op = "isChainValid"
    /\ ret.value = TRUE
    /\ Len(chain) = 3
    /\ \E j \in 1..Len(TxsOf(3)) : TxsOf(3)[j].type = "transfer"
    /\ ~isChainValid(Unsigned(3, 1).c, Unsigned(3, 1).heap)
    /\ ~isChainValid(Rehashed(1, ZeroHash).c, arrays)
    /\ ~isChainValid(Renonced(3).c, arrays)

(* C27: a block appended by minePendingTransactions while the chain       *)
(* difficulty is d has d in its difficulty field, for every d.            *)
DifficultyRecorded ==
    [][Len(chain') = Len(chain) + 1 =>
          chain'[Len(chain')].difficulty = difficulty]_vars

(* C28: a block that has been mined has the given miner address in its    *)
(* miner field and, in its reward field, 10 coins plus the sum of the     *)
(* fees of all its transactions, the reward transaction's fee included.   *)
FeeSum(txs) == SumSeq([j \in 1..Len(txs) |-> txs[j].fee])

BlockReward ==
    [][Len(chain') = Len(chain) + 1 =>
          LET b == chain'[Len(chain')]
              txs == arrays'[b.transactions]
          IN  /\ b.miner = ret'.arg
              /\ b.reward = 10 * Coin + FeeSum(txs)
              /\ txs[Len(txs)].type = "mining_reward"
              /\ txs[Len(txs)].fee > 0]_vars

BlockRewardWitness ==
    /\ ret.op = "minePendingTransactions"
    /\ ret.err = "none"
    /\ LET b == chain[ret.value]
           txs == TxsOf(ret.value)
       IN  /\ Len(txs) = 2
           /\ txs[1].type = "transfer" /\ txs[1].fee = baseFee
           /\ txs[2].type = "mining_reward"
           /\ b.miner = "B"
           /\ b.reward = 10 * Coin + 2 * baseFee

(* C29: a transaction built without a fee override has the fee            *)
(* max(baseFee, amount * feeRate), one built with an override has the     *)
(* override; signing keeps it, and no step (addTransaction, mining, state *)
(* application) changes the fee of a transaction held in the pool or in   *)
(* a block.                                                               *)
ClaimedFee(r) ==
    IF r.customFee = NullFee
    THEN (IF r.amount \div 10000 > 10 THEN r.amount \div 10000 ELSE 10)
    ELSE r.customFee

FeeRule ==
    /\ [](\A r \in Requests : RequestTransaction(r).fee = ClaimedFee(r))
    /\ [][/\ Len(arrays') >= Len(arrays)
          /\ \A k \in 1..Len(arrays) :
                /\ Len(arrays'[k]) >= Len(arrays[k])
                /\ \A j \in 1..Len(arrays[k]) :
                      /\ arrays'[k][j].id = arrays[k][j].id
                      /\ arrays'[k][j].fee = arrays[k][j].fee]_vars

FeeRuleWitness ==
    /\ ret.op = "minePendingTransactions"
    /\ ret.err = "none"
    /\ \E j, k \in 1..Len(TxsOf(ret.value)) :
          LET t == TxsOf(ret.value)[j]
              u == TxsOf(ret.value)[k]
          IN  /\ t.type = "transfer" /\ t.signature # Null
              /\ t.amount = 6 * Coin /\ t.fee = 0
              /\ u.type = "transfer" /\ u.signature # Null
              /\ u.amount = 6 * Coin /\ u.fee = baseFee
              /\ getBalance(balances, t.to) >= 6 * Coin

(* C30: an addTransaction call changes nothing but the pending pool (one  *)
(* element appended when it succeeds, nothing when it fails); the chain,  *)
(* the committed blocks' transaction lists included, and the coin         *)
(* balances change only in a minePendingTransactions call; the read-only  *)
(* queries change nothing.                                                *)
QueryNames ==
    {"getBalance", "getTokenBalance", "getStats", "searchBlock",
     "searchTransaction", "getAddressTransactions", "isChainValid"}

ChainUnchanged ==
    /\ chain' = chain
    /\ \A i \in 1..Len(chain) : arrays'[chain[i].transactions] = TxsOf(i)

PoolAppended ==
    LET after == arrays'[pendingTransactions']
    IN  IF ret'.err = "none"
        THEN /\ Len(after) = Len(pending) + 1
             /\ SubSeq(after, 1, Len(pending)) = pending
        ELSE after = pending

AddTransactionFrame ==
    ret'.op = "addTransaction" =>
        /\ PoolAppended
        /\ ChainUnchanged
        /\ UNCHANGED <<balances, tokens, tokenInfo, difficulty>>

MiningOnlyFrame ==
    ret'.op # "minePendingTransactions" =>
        ChainUnchanged /\ balances' = balances

QueryFrame ==
    ret'.op \in QueryNames =>
        UNCHANGED <<chain, arrays, pendingTransactions, difficulty, balances,
                    tokens, tokenInfo, now, nextId>>

FrameOfMutations ==
    [][AddTransactionFrame /\ MiningOnlyFrame /\ QueryFrame]_vars

(* C31: a Miner calls minePendingTransactions only when the pool is not   *)
(* empty at that moment, so every block a Miner commits holds at least    *)
(* one submitted transaction (one with a sender: addTransaction accepts   *)
(* no other) besides the reward transaction.                              *)
Submitted(tx) == tx.from # Null

MinerGating ==
    /\ [](\A i \in 2..Len(chain) :
            /\ chain[i].miner = minerAddress
            /\ Len(TxsOf(i)) >= 2
            /\ \E j \in 1..Len(TxsOf(i)) : Submitted(TxsOf(i)[j])
            /\ \E j \in 1..Len(TxsOf(i)) : TxsOf(i)[j].type = "mining_reward")
    /\ [][Len(chain') > Len(chain) =>
            /\ Len(pending) > 0
            /\ \E j \in 1..Len(pending) : Submitted(pending[j])
            /\ call' \in {"start", "miningLoop", "startPool"}]_vars

MinerGatingWitness ==
    /\ call = "miningLoop"
    /\ miner.isRunning
    /\ Len(chain) = 3
    /\ ret.op = "minePendingTransactions"
    /\ ret.err = "none"
    /\ Len(TxsOf(3)) = 2
    /\ TxsOf(3)[1].type = "transfer"
    /\ Len(pending) = 0

(* C32: every block after the genesis block holds exactly one             *)
(* mining_reward transaction, the last one of the block, of amount        *)
(* miningReward and paid to the block's miner; and addTransaction accepts *)
(* no mining_reward transaction.                                          *)
RewardsOf(txs) == {j \in 1..Len(txs) : txs[j].type = "mining_reward"}

OneReward(i) ==
    LET txs == TxsOf(i)
    IN  /\ RewardsOf(txs) = {Len(txs)}
        /\ txs[Len(txs)].amount = miningReward
        /\ txs[Len(txs)].to = chain[i].miner

RewardUniqueness ==
    /\ [](\A i \in 2..Len(chain) : OneReward(i))
    /\ [][AcceptStep =>
            arrays'[pendingTransactions][Len(pending) + 1].type
                # "mining_reward"]_vars

(* C33: the coin balances sum to at most miningReward times the number of *)
(* blocks after the genesis block.                                        *)
CoinSupplyBound == MapSum(balances) <= miningReward * (Len(chain) - 1)

(* C34: for every registered token, the sum of its balances over all      *)
(* addresses equals its registered totalSupply plus the amounts of the    *)
(* committed mint_token transactions that name it.                        *)
CommittedArrays == {chain[i].transactions : i \in 1..Len(chain)}

MintedIn(txs, t) ==
    SumSeq([j \in 1..Len(txs) |->
              IF txs[j].type = "mint_token" /\ txs[j].data.tokenName = t
              THEN txs[j].amount ELSE 0])

CommittedMints(t) ==
    MapSum([k \in CommittedArrays |-> MintedIn(arrays[k], t)])

TokenSupplyAccounting ==
    \A t \in DOMAIN tokenInfo :
        TokenSum(tokens, t) = tokenInfo[t].totalSupply + CommittedMints(t)

(* C35: committing transfer_token and mint_token transactions leaves      *)
(* every coin balance as it was (the block's own reward transaction aside,*)
(* which credits miningReward to the miner when the call returns); their  *)
(* fees are part of block.reward, and addTransaction never rejects these  *)
(* kinds for insufficient funds.                                          *)
TokenKinds == {"transfer_token", "mint_token"}

TokenRequests == {r \in Requests : r.type \in TokenKinds}

OnlyTokenKinds(txs) ==
    /\ Len(txs) >= 1
    /\ \A j \in 1..Len(txs) : txs[j].type \in TokenKinds

SingleMiningLoop == miner.loops <= 1

(* C37: between a stop() of the Miner and its next start() the Miner      *)
(* commits no block (a block is committed only by a step in which the     *)
(* Miner is running, or is started), and a stopPool() call leaves the     *)
(* pool's member not running.                                             *)
NoBlockWhileStopped ==
    Len(chain') > Len(chain) =>
        /\ miner'.isRunning
        /\ miner.isRunning \/ call' \in {"start", "startPool"}

StopPoolStopsMembers == call' = "stopPool" => ~miner'.isRunning

StopTakesEffect == [][NoBlockWhileStopped /\ StopPoolStopsMembers]_vars

AcceptedTransfer == ret.op = "POST /api/transfer" /\ ret.value.status = 200

ExplorerFeeConsistency ==
    AcceptedTransfer =>
        LET body == ret.arg
            r == ret.value
        IN  /\ r.fee.type = "number"
            /\ body.customFee = Undefined =>
                  /\ r.fee = r.precheck
                  /\ r.fee = Num(IF body.amount \div 10000 > 10
                                 THEN body.amount \div 10000 ELSE 10)
            /\ r.committed.type = "number"
            /\ r.committed = Num(body.balance - body.amount - r.fee.val)


(* C40: Wallet.importPrivateKey(w.exportPrivateKey(p), p) returns a wallet *)
(* with the private key of w, a public key that belongs to that private    *)
(* key, and the address of w; and Wallet.load of a file that w.save()      *)
(* wrote returns a wallet with the name, address, public key and private   *)
(* key of w.                                                               *)
KeysMatch(privateKey, publicKey) == privateKey.key = publicKey.key

WrittenBy(text, w) == \E t \in {now} : text = WalletJson(w, t)

ImportRoundTrip ==
    (walletCall.op = "importPrivateKey" /\ walletCall.err = "none")
    => LET w == wallets[walletCall.exported]
           imported == wallets[walletCall.wallet]
       IN  /\ imported.privateKey = w.privateKey
           /\ KeysMatch(imported.privateKey, imported.publicKey)
           /\ imported.address = w.address

LoadRoundTrip ==
    (walletCall.op = "load" /\ walletCall.err = "none")
    => \A i \in 1..Len(wallets) :
          WrittenBy(files[walletCall.file], wallets[i])
          => LET w == wallets[i]
                 loaded == wallets[walletCall.wallet]
             IN  /\ loaded.name = w.name
                 /\ loaded.address = w.address
                 /\ loaded.publicKey = w.publicKey
                 /\ loaded.privateKey = w.privateKey

WalletKeyRoundTrip == ImportRoundTrip /\ LoadRoundTrip

=============================================================================
